---- MODULE Spec2Model ----
(***************************************************************************)
(* A model of the AJuM client (src/src/ajum.py, src/src/helpers.py) and of *)
(* the commands backup, update, index and build of its command line        *)
(* (src/src/cli.py).                                                       *)
(*                                                                         *)
(* Strings are sequences of tokens (Text): a token is a word, a digit or   *)
(* one of the separators " ", "\n", ":", ",".  A Python dict is the        *)
(* sequence of its <<key, value>> pairs in insertion order.  The cache     *)
(* directory is the mapping files: file name -> content, a review page for *)
(* <id>.html and a list of review ids for <hash>.json.                     *)
(***************************************************************************)
EXTENDS Integers, Sequences, FiniteSets, TLC

(***************************************************************************)
(* Bounds of the model                                                     *)
(***************************************************************************)
\* number of review identifiers the remote site knows
MaxReview == 1
\* greatest number of result pages after page 0 the remote site reports
MaxPages == 1
\* greatest number of hyperlinks with an id on one results page
MaxLinks == 2
\* greatest number of insertions into one mapping in the hashing specification
MaxInsert == 3
\* number of worker processes of the index pool (--jobs)
Jobs == 2
\* number of review pages in the cache the index is built from
MaxCached == 2
\* greatest number of table rows of a review page that extract_review is applied to
MaxRows == 2

(***************************************************************************)
(* Program constants                                                       *)
(***************************************************************************)
\* results per page: range(1, (int(matches[0]) // 50) + 1), str(i * 50)
PageSize == 50
\* "When reaching maximum number of data records": len(data) == 21
MaxRecords == 21

IdNames == <<"1", "2", "3", "4">>
ReviewIds == {IdNames[n] : n \in 1..MaxReview}

\* id values of hyperlinks that are no numbers
ShadyIds == {"1x", "x"}

(***************************************************************************)
(* Text                                                                    *)
(***************************************************************************)
Digits == <<"0", "1", "2", "3", "4", "5", "6", "7", "8", "9">>

\* str(n) for a natural number n: its decimal digits
RECURSIVE Str(_)
Str(n) == IF n < 10 THEN <<Digits[n + 1]>> ELSE Append(Str(n \div 10), Digits[(n % 10) + 1])

DigitValue(c) == CHOOSE d \in 0..9 : Digits[d + 1] = c

IsDigit(c) == \E d \in 0..9 : Digits[d + 1] = c

\* the characters of a review identifier
Chars(review) == CASE review = "1x" -> <<"1", "x">>
                   [] review = "x" -> <<"x">>
                   [] OTHER -> <<review>>

\* int(s) for a string of digits s
RECURSIVE ParseInt(_)
ParseInt(s) == IF Len(s) = 0 THEN 0
               ELSE 10 * ParseInt(SubSeq(s, 1, Len(s) - 1)) + DigitValue(s[Len(s)])

RECURSIVE Flatten(_)
Flatten(ss) == IF Len(ss) = 0 THEN <<>> ELSE Head(ss) \o Flatten(Tail(ss))

\* the orders in which a set can be listed: list(reviews) of a Python set
Listings(S) == {s \in [1..Cardinality(S) -> S] : \A a, b \in DOMAIN s : a # b => s[a] # s[b]}

Range(s) == {s[n] : n \in DOMAIN s}

(***************************************************************************)
(* Python dict: insertion-ordered pairs                                    *)
(***************************************************************************)
DictKeys(d) == {d[n][1] : n \in DOMAIN d}

DictHas(d, k) == k \in DictKeys(d)

\* d[k] = v: an existing key keeps its position, a new key goes last
DictSet(d, k, v) == IF DictHas(d, k)
                    THEN [n \in DOMAIN d |-> IF d[n][1] = k THEN <<k, v>> ELSE d[n]]
                    ELSE Append(d, <<k, v>>)

\* the content of a mapping: its name/value pairs, whatever their order
DictItems(d) == Range(d)

(***************************************************************************)
(* helpers.py                                                              *)
(***************************************************************************)
\* str(source) of a dict: the pairs rendered in insertion order
DictStr(source) == Flatten([n \in DOMAIN source |-> <<"'", source[n][1], "'", ":", "'">> \o source[n][2] \o <<"'", ",">>])

\* hashlib.md5(..).hexdigest(), taken to be free of collisions
Md5(s) == <<"md5">> \o s

dict2hash(source) == Md5(DictStr(source))

(***************************************************************************)
(* String operations used by extract_review                                *)
(***************************************************************************)
IsSpace(c) == c \in {" ", "\n"}

\* s.replace(c, '')
Remove(s, c) == SelectSeq(s, LAMBDA x : x # c)

RECURSIVE LStrip(_)
LStrip(s) == IF Len(s) > 0 /\ IsSpace(Head(s)) THEN LStrip(Tail(s)) ELSE s

RECURSIVE RStrip(_)
RStrip(s) == IF Len(s) > 0 /\ IsSpace(s[Len(s)]) THEN RStrip(SubSeq(s, 1, Len(s) - 1)) ELSE s

\* s.strip()
Strip(s) == RStrip(LStrip(s))

\* re.split('\n', s): the lines of s
RECURSIVE Split(_, _)
Split(s, cur) == IF Len(s) = 0 THEN <<cur>>
                 ELSE IF Head(s) = "\n" THEN <<cur>> \o Split(Tail(s), <<>>)
                 ELSE Split(Tail(s), Append(cur, Head(s)))

\* ' '.join(texts)
RECURSIVE Join(_)
Join(texts) == IF Len(texts) = 0 THEN <<>>
               ELSE IF Len(texts) = 1 THEN texts[1]
               ELSE texts[1] \o <<" ">> \o Join(Tail(texts))

\* the legacy control characters and what process() puts in their place
LegacyText(c) == CASE c = "u0084" -> <<"\"">>
                   [] c = "u0093" -> <<"\"">>
                   [] c = "u0085" -> <<"...">>
                   [] c = "u0094" -> <<"\"", ".", " ">>
                   [] c = "u0096" -> <<"-">>
                   [] OTHER -> <<c>>

process(string) == LET s == Strip(string)
                   IN Flatten([n \in DOMAIN s |-> LegacyText(s[n])])

(***************************************************************************)
(* Review pages.  A page is [disclaimer, cells]: whether its text holds    *)
(* 'presserechtliche Verantwortung', and the texts of the data cells (td)  *)
(* of the table after the form, in document order.                         *)
(***************************************************************************)
Terms == <<"Autor", "Titel", "ISBN", "Übersetzer", "Originalsprache", "Illustrator",
           "Seitenanzahl", "Verlag", "Gattung", "Reihe", "Jahr", "Preis", "Inhalt",
           "Lesealter", "Einsatzmöglichkeiten", "WolgastPreis", "Bewertung",
           "Schlagwörter", "Anmerkungen", "Beurteilungstext">>

RunningText == {"Inhalt", "Anmerkungen", "Beurteilungstext"}

\* the term the inner loop of extract_review stops at for a cell text, or "" if none:
\* the first term not yet in data with text.replace('\n', '').replace(' ', '') == term + ':'
MatchingTerm(text, data) ==
    LET bare == Remove(Remove(text, "\n"), " ")
        hits == {n \in DOMAIN Terms : Terms[n] \notin DOMAIN data /\ bare = <<Terms[n], ":">>}
    IN IF hits = {} THEN "" ELSE Terms[CHOOSE n \in hits : \A m \in hits : n <= m]

\* the value stored for a term from the text of the next sibling cell
FieldValue(term, sibling) ==
    LET lines == Split(sibling, <<>>)
        texts == [n \in DOMAIN lines |-> process(lines[n])]
    IN IF term \in RunningText
       THEN SelectSeq(texts, LAMBDA t : t # <<>>)
       ELSE Strip(Join(texts))

\* one pass of the loop over the cells, for the cell at index k
ScanCell(cells, k, data) ==
    LET text == cells[k]
        term == MatchingTerm(text, data)
        d1 == IF term = "" THEN data ELSE (term :> FieldValue(term, cells[k + 1])) @@ data
    IN IF ":" \notin Range(text) THEN data
       ELSE IF Strip(text) = <<"Preis", ":">>
            THEN ("Einband" :> Strip(cells[k + 3])) @@ d1
            ELSE d1

RECURSIVE ScanCells(_, _, _)
ScanCells(cells, k, data) ==
    IF k > Len(cells) \/ Cardinality(DOMAIN data) = MaxRecords THEN data
    ELSE ScanCells(cells, k + 1, ScanCell(cells, k, data))

NoData == [t \in {} |-> <<>>]

extract_review(html) ==
    LET data == ScanCells(html.cells, 1, NoData)
    IN IF "ISBN" \in DOMAIN data
       THEN [data EXCEPT !["ISBN"] = Remove(data["ISBN"], " ")]
       ELSE data

Label(term) == <<term, ":">>

\* pages the remote site serves for a review id
BadPage == [disclaimer |-> FALSE, cells |-> <<>>]
PageA == [disclaimer |-> TRUE,
          cells |-> <<Label("Autor"), <<"Anna", ",">>, Label("ISBN"), <<"9", " ", "1">>>>]
PageB == [disclaimer |-> TRUE,
          cells |-> <<Label("ISBN"), <<" ", "9", "1">>, Label("Titel"), <<"Drachen">>>>]
PageC == [disclaimer |-> TRUE,
          cells |-> <<Label("Titel"), <<"Drachen">>, Label("Inhalt"), <<"a", "\n", "\n", "b">>>>]
PageD == [disclaimer |-> TRUE,
          cells |-> <<Label("ISBN"), <<"9", "2">>, Label("ISBN"), <<"9", "1">>>>]

ReviewPages == {BadPage, PageA, PageC}

(***************************************************************************)
(* Results pages.  A page is [count, links]: what                          *)
(* re.findall(r'wurden\s(\d+)\sRezensionen', html) finds in it, and the id  *)
(* parameters of the hyperlinks inside td.td_body, in document order.      *)
(***************************************************************************)
Counts == UNION {{k * PageSize - 1, k * PageSize} : k \in 1..MaxPages}

LinkLists == UNION {[1..n -> ReviewIds] : n \in 0..MaxLinks}

ResultsPages == [count : {<<>>} \cup {<<Str(n)>> : n \in Counts}, links : LinkLists]

\* the pages of links that may carry any id value
LinkIds == ReviewIds \cup ShadyIds

ShadyPages == [count : {<<>>} \cup {<<Str(n)>> : n \in Counts},
               links : UNION {[1..n -> LinkIds] : n \in 0..MaxLinks}]

\* two results pages for the calls of query: no match, and one page more to come
QueryPages == {[count |-> <<>>, links |-> <<>>], [count |-> <<Str(PageSize)>>, links |-> <<"1">>]}

VARIABLES
    site,        \* the remote site: which results pages it may answer with
    redirects    \* load_json('redirects.json'): replacements for ill-conceived links

envVars == <<site, redirects>>

\* the results pages requests.get may be answered with
Served == CASE site = "shady" -> ShadyPages
            [] site = "query" -> QueryPages
            [] OTHER -> ResultsPages

NoRedirects == [r \in {} |-> ""]

\* the contents of redirects.json tried
RedirectFiles == {NoRedirects, ("x" :> "1"), ("1" :> "x")}

\* if review in redirects: review = redirects[review]
Redirected(review) == IF review \in DOMAIN redirects THEN redirects[review] ELSE review

\* re.match(r'\d+', review): one digit or more at the start of the identifier
MatchDigits(review) == Len(Chars(review)) > 0 /\ IsDigit(Chars(review)[1])

\* the loop of extract_results comes to a link whose id fails the check: the report
\* through click, a name ajum.py does not import, raises NameError
Shady(html) == \E n \in DOMAIN html.links : ~MatchDigits(Redirected(html.links[n]))

\* an extract_results that keeps a list of the ids, one entry per hyperlink
LinkList(html) == {[n \in DOMAIN html.links |-> Redirected(html.links[n])]}

\* the lists extract_results can return for a page: list(reviews) of the set of ids
extract_results(html) == IF Shady(html) THEN {}
                         ELSE Listings({Redirected(html.links[n]) : n \in DOMAIN html.links})

(***************************************************************************)
(* State                                                                   *)
(***************************************************************************)
VARIABLES
    files,       \* the cache directory: file name -> content
    pc,          \* "idle", or the place get_results has reached
    op,          \* the operation called last
    review,      \* its review id (fetch_review, get_review)
    params,      \* the dict object the caller passed (fetch_results, get_results)
    params0,     \* the content of that dict when the call was made
    html,        \* the text of the response (fetch_review, get_results)
    matches,     \* get_results: the result counts found in it
    i,           \* get_results: the loop variable
    json_files,  \* get_results: the data file array
    fetched,     \* what fetch_review or fetch_results returned
    data,        \* what get_review returned
    reviews,     \* what get_results returned
    outcome,     \* "running", "returned" or "raised"
    requests,    \* requests.get calls made by the operation so far
    sleeps,      \* time.sleep calls made by the operation so far
    files0       \* the cache directory when the operation was called

VARIABLES
    first,       \* hashing: a dict built by assignments
    second,      \* hashing: another dict built by assignments
    key1,        \* hashing: hash2file(first) when it was last taken
    key2,        \* hashing: hash2file(second) when it was last taken
    inserts      \* hashing: the assignments made to each dict

hashVars == <<first, second, key1, key2, inserts>>

apiVars == <<files, pc, op, review, params, params0, html, matches, i, json_files,
             fetched, data, reviews, outcome, requests, sleeps, files0>>

cache_dir == ".db"

id2file(r) == <<cache_dir, "/", r, ".html">>

file2id(html_file) == html_file[3]

hash2file(p) == <<cache_dir, "/">> \o dict2hash(p) \o <<".json">>

\* glob.glob(cache_dir + '/*.json'), glob.glob(cache_dir + '/*.html')
GlobJson == {f \in DOMAIN files : f[Len(f)] = ".json"}
GlobHtml == {f \in DOMAIN files : f[Len(f)] = ".html"}

Exists(file) == file \in DOMAIN files

\* open(file, 'w') and write, dump_json(data, file)
Written(file, content) == (file :> content) @@ files

\* no response held
NoPage == [none |-> TRUE]
NoReview == ""
NoParams == <<>>
NoFile == [f \in {} |-> <<>>]

\* the parameter dicts of the callers: query() sends no 'start', update() sends one;
\* the calls of the model are update's
Suchen == <<<<"do", <<"suchen">>>>>>
SuchenStart == <<<<"do", <<"suchen">>>>, <<"start", <<"0">>>>>>
CallerParams == {SuchenStart}

(***************************************************************************)
(* Ajum: single operations                                                 *)
(***************************************************************************)
\* a fetch_review that does not look for the file before it sends the request
NeverCached(r) == FALSE

\* a fetch_results that does not look for the file before it sends the request
NeverStored(p) == FALSE

\* "If not cached yet ..": os.path.exists(html_file), os.path.exists(json_file)
ReviewCached(r) == Exists(id2file(r))
ResultsCached(p) == Exists(hash2file(p))

\* a fetch_review that saves whatever it is answered
AnyPage(page) == TRUE

\* 'presserechtliche Verantwortung' in html
Genuine(page) == page.disclaimer

\* a call_api that sends its request at once
Unthrottled(n) == requests' = n + 1 /\ sleeps' = n

\* call_api: one sleep, then one request
Called(n) == requests' = n + 1 /\ sleeps' = n + 1
NotCalled(n) == requests' = n /\ sleeps' = n

\* a call_api that sends its request again when it has failed
Retried(n) == requests' = n + 2 /\ sleeps' = n + 2 /\ outcome' = "raised"

\* requests.get raises (no connection, timeout): no response, the error goes up
TransportError(n) == Called(n) /\ outcome' = "raised"

\* the operation was left by an exception
Failed(o) == o \in {"raised", "error"}

\* the body of fetch_review(r), entered with n requests made
FetchReviewBody(r, n, out) ==
    IF ReviewCached(r)
    THEN /\ NotCalled(n)
         /\ html' = NoPage
         /\ files' = files
         /\ fetched' = Exists(id2file(r))
         /\ outcome' = out
    ELSE \/ /\ TransportError(n)
            /\ html' = NoPage
            /\ files' = files
            /\ fetched' = FALSE
         \/ \E page \in ReviewPages :
               /\ Called(n)
               /\ html' = page
               /\ files' = IF Genuine(page) THEN Written(id2file(r), page) ELSE files
               /\ fetched' = (Genuine(page) /\ id2file(r) \in DOMAIN files')
               /\ outcome' = out

\* the body of fetch_results(p), entered with n requests made
FetchResultsBody(p, n, out) ==
    IF ResultsCached(p)
    THEN /\ NotCalled(n)
         /\ files' = files
         /\ fetched' = Exists(hash2file(p))
         /\ outcome' = out
    ELSE \/ /\ TransportError(n)
            /\ files' = files
            /\ fetched' = FALSE
         \/ \E page \in Served :
               /\ Called(n)
               /\ IF Shady(page)
                  THEN /\ files' = files
                       /\ fetched' = FALSE
                       /\ outcome' = "error"
                  ELSE \E ids \in extract_results(page) :
                          /\ files' = Written(hash2file(p), ids)
                          /\ fetched' = (hash2file(p) \in DOMAIN files')
                          /\ outcome' = out

\* what a call leaves of the previous one
Begin(name, r, p) ==
    /\ pc = "idle"
    /\ op' = name
    /\ review' = r
    /\ params0' = p
    /\ files0' = files

NoLocals == matches' = <<>> /\ i' = 0 /\ json_files' = <<>>

fetch_review(r) ==
    /\ Begin("fetch_review", r, NoParams)
    /\ FetchReviewBody(r, 0, "returned")
    /\ params' = NoParams
    /\ data' = NoData
    /\ reviews' = <<>>
    /\ NoLocals
    /\ pc' = "idle"

get_review(r) ==
    /\ Begin("get_review", r, NoParams)
    /\ FetchReviewBody(r, 0, "returned")
    /\ data' = IF fetched' THEN extract_review(files'[id2file(r)]) ELSE NoData
    /\ params' = NoParams
    /\ reviews' = <<>>
    /\ NoLocals
    /\ pc' = "idle"

fetch_results(p) ==
    /\ Begin("fetch_results", NoReview, p)
    /\ FetchResultsBody(p, 0, "returned")
    /\ html' = NoPage
    /\ params' = p
    /\ data' = NoData
    /\ reviews' = <<>>
    /\ NoLocals
    /\ pc' = "idle"

\* a clear_cache that loops over every file of the cache directory
KeptNothing == NoFile

\* what clear_cache leaves: the files it does not loop over
KeptByClear == [f \in DOMAIN files \ GlobJson |-> files[f]]

clear_cache ==
    /\ Begin("clear_cache", NoReview, NoParams)
    /\ files' = KeptByClear
    /\ html' = NoPage
    /\ NotCalled(0)
    /\ fetched' = FALSE
    /\ outcome' = "returned"
    /\ params' = NoParams
    /\ data' = NoData
    /\ reviews' = <<>>
    /\ NoLocals
    /\ pc' = "idle"

(***************************************************************************)
(* Ajum.get_results, one action per request it can make                    *)
(***************************************************************************)
\* re.findall(r'wurden\s(\d+)\sRezensionen', html)
findall(page) == page.count

\* a get_results that does not stop when there is no count
NeverEmpty(found) == FALSE

\* "Skip if no results": not matches
NoMatches(found) == found = <<>>

\* the last value of range(1, (int(matches[0]) // 50) + 1)
LastPage(found) == ParseInt(found[1]) \div PageSize

\* the locals of get_results end with the call; matches stays to be observed, and
\* so does the first response when it is all the call has looked at
Left == html' = NoPage /\ i' = 0 /\ json_files' = <<>>

\* html = self.call_api(params), then the check of the number of results
get_results_call(p) ==
    /\ Begin("get_results", NoReview, p)
    /\ params' = p
    /\ \/ /\ TransportError(0)
          /\ html' = NoPage
          /\ matches' = <<>>
          /\ pc' = "idle"
       \/ \E page \in Served :
             /\ Called(0)
             /\ html' = page
             /\ matches' = findall(page)
             /\ outcome' = IF NoMatches(matches') THEN "returned" ELSE "running"
             /\ pc' = IF NoMatches(matches') THEN "idle" ELSE "first"
    /\ i' = 0
    /\ json_files' = <<>>
    /\ fetched' = FALSE
    /\ data' = NoData
    /\ reviews' = <<>>
    /\ files' = files

\* if not self.fetch_results(params): return []
\* (fetch_results returns os.path.exists(json_file) right after dump_json: True)
get_results_first ==
    /\ pc = "first"
    /\ FetchResultsBody(params, requests, "running")
    /\ IF Failed(outcome')
       THEN Left /\ pc' = "idle"
       ELSE /\ i' = 1
            /\ pc' = "loop"
            /\ UNCHANGED <<html, json_files>>
    /\ UNCHANGED <<op, review, params, params0, matches, data, reviews, files0>>

\* one iteration over the subsequent results pages
get_results_page ==
    /\ pc = "loop"
    /\ i <= LastPage(matches)
    /\ params' = DictSet(params, "start", Str(i * PageSize))
    /\ FetchResultsBody(params', requests, "running")
    /\ IF Failed(outcome')
       THEN Left /\ pc' = "idle"
       ELSE /\ json_files' = IF fetched' THEN Append(json_files, hash2file(params'))
                                         ELSE json_files
            /\ i' = i + 1
            /\ pc' = "loop"
            /\ html' = html
    /\ UNCHANGED <<op, review, params0, matches, data, reviews, files0>>

\* the review ids of the first response, extended by those of the data files
Collected(head) == head \o Flatten([n \in DOMAIN json_files |-> files[json_files[n]]])

get_results_return ==
    /\ pc = "loop"
    /\ i > LastPage(matches)
    /\ IF Shady(html)
       THEN reviews' = <<>> /\ outcome' = "error"
       ELSE \E head \in extract_results(html) : reviews' = Collected(head) /\ outcome' = "returned"
    /\ Left
    /\ pc' = "idle"
    /\ UNCHANGED <<files, op, review, params, params0, matches, fetched, data,
                   requests, sleeps, files0>>

\* extract_results(page) called on its own
extract(page) ==
    /\ Begin("extract_results", NoReview, NoParams)
    /\ html' = page
    /\ IF Shady(page)
       THEN reviews' = <<>> /\ outcome' = "error"
       ELSE \E ids \in extract_results(page) : reviews' = ids /\ outcome' = "returned"
    /\ files' = files
    /\ NotCalled(0)
    /\ fetched' = FALSE
    /\ params' = NoParams
    /\ data' = NoData
    /\ NoLocals
    /\ pc' = "idle"

(***************************************************************************)
(* Calls of get_results one after the other, on dicts of the same content  *)
(***************************************************************************)
VARIABLES
    completed,   \* the get_results call that returned a list last, since the last clear_cache
    completed0   \* completed when the operation was called

rerunVars == <<completed, completed0>>

NoCall == [none |-> TRUE]

NoRerun == completed = NoCall /\ completed0 = NoCall

\* {'start': '0', 'do': 'suchen'}: the content of SuchenStart, assigned the other way round
StartSuchen == <<<<"start", <<"0">>>>, <<"do", <<"suchen">>>>>>

RerunParams == {SuchenStart, StartSuchen}

\* get_results(p), called after the calls made so far
rerun_call(p) ==
    /\ get_results_call(p)
    /\ completed0' = completed
    /\ completed' = completed

rerun_first == get_results_first /\ UNCHANGED rerunVars

rerun_page == get_results_page /\ UNCHANGED rerunVars

\* return reviews: the call has completed for the count it found
rerun_return ==
    /\ get_results_return
    /\ completed' = IF outcome' = "returned" THEN [params |-> params0, count |-> matches]
                                              ELSE completed
    /\ completed0' = completed0

\* clear_cache between two calls
rerun_clear ==
    /\ clear_cache
    /\ completed' = NoCall
    /\ completed0' = NoCall

(***************************************************************************)
(* Ajum.extract_review called on its own, one action per data cell         *)
(***************************************************************************)
\* rows of the table of a review page: a label cell and its value cell; the row of
\* the price goes on with an empty cell and the cell of the binding
Rows == {<<Label("Autor"), <<"Anna", ",">>>>,
         <<Label("Autor"), <<"Bert">>>>,
         <<Label("ISBN"), <<"9", " ", "1">>>>,
         <<Label("ISBN"), <<"9", "2">>>>,
         <<Label("Preis"), <<"10">>, <<>>, <<"gebunden">>>>,
         <<Label("Preis"), <<"12">>, <<>>, <<"broschiert">>>>,
         <<Label("Inhalt"), <<"a", "\n", "\n", "b">>>>}

\* the review pages extract_review is applied to: the disclaimer and some rows
TablePages == {[disclaimer |-> TRUE, cells |-> Flatten(rows)] :
                  rows \in UNION {[1..n -> Rows] : n \in 0..MaxRows}}

\* "When reaching maximum number of data records ..", or no cell is left
ScanOver(cells, k, record) == k > Len(cells) \/ Cardinality(DOMAIN record) = MaxRecords

\* "If field 'ISBN' is present .. remove whitespaces inside"
Finished(record) == IF "ISBN" \in DOMAIN record
                    THEN [record EXCEPT !["ISBN"] = Remove(record["ISBN"], " ")]
                    ELSE record

\* data = {} and the first cell of the table is next
extract_review_start(page) ==
    /\ Begin("extract_review", NoReview, NoParams)
    /\ html' = page
    /\ data' = NoData
    /\ i' = 1
    /\ pc' = "scan"
    /\ outcome' = "running"
    /\ files' = files
    /\ NotCalled(0)
    /\ fetched' = FALSE
    /\ params' = NoParams
    /\ reviews' = <<>>
    /\ matches' = <<>>
    /\ json_files' = <<>>

\* one pass of the loop over the data cells
extract_review_cell ==
    /\ pc = "scan"
    /\ ~ScanOver(html.cells, i, data)
    /\ data' = ScanCell(html.cells, i, data)
    /\ i' = i + 1
    /\ UNCHANGED <<files, pc, op, review, params, params0, html, matches, json_files, fetched,
                   reviews, outcome, requests, sleeps, files0>>

\* the loop has ended: the ISBN is cleaned and data returned
extract_review_return ==
    /\ pc = "scan"
    /\ ScanOver(html.cells, i, data)
    /\ data' = Finished(data)
    /\ i' = 0
    /\ pc' = "idle"
    /\ outcome' = "returned"
    /\ UNCHANGED <<files, op, review, params, params0, html, matches, json_files, fetched,
                   reviews, requests, sleeps, files0>>

(***************************************************************************)
(* Callers of get_results: Ajum.query, and the commands backup and update  *)
(* of cli.py.  A behaviour runs one of them.                               *)
(***************************************************************************)
VARIABLES
    cmd,         \* the caller that was started: "none", "query", "backup" or "update"
    cpc,         \* the place it has reached: "none", "results", "reviews", "done", "failed"
    args,        \* query: the arguments it was called with
    todo,        \* the review ids its loop has still to visit
    result       \* query: the data array of get_reviews, review id -> record

callVars == <<cmd, cpc, args, todo, result>>

NoArgs == [none |-> TRUE]
NoResult == [r \in {} |-> NoData]

NoCaller ==
    /\ cmd = "none"
    /\ cpc = "none"
    /\ args = NoArgs
    /\ todo = <<>>
    /\ result = NoResult

\* members of the lists query looks its 'select' arguments up in
Tags == {<<"Abenteuer">>, <<"Liebe", "/", "Erste", " ", "Liebe">>}
Ratings == {<<"empfehlenswert">>, <<"sehr", " ", "empfehlenswert">>,
            <<"nicht", " ", "empfehlenswert">>}
Applications == {<<"Klassenlesestoff">>,
                 <<"Büchereigrundstock", " ", "für", " ", "Arbeitsbücherei">>}
MediaTypes == {<<"Arbeitsheft">>, <<"Audio-CD">>}
Ages == {<<"0-3">>, <<"4-5">>, <<"6-7">>, <<"8-9">>, <<"10-11">>, <<"12-13">>, <<"14-15">>,
         <<"16-17">>, <<"ab", " ", "18">>}
Genres == {<<"Anthologie">>, <<"Atlas">>}

\* urllib.parse.quote_plus: a space becomes '+', other reserved and non-ASCII
\* characters are percent-encoded
QuoteToken(c) == CASE c = " " -> "+"
                   [] c = "/" -> "%2F"
                   [] c = "für" -> "f%C3%BCr"
                   [] c = "Büchereigrundstock" -> "B%C3%BCchereigrundstock"
                   [] c = "Arbeitsbücherei" -> "Arbeitsb%C3%BCcherei"
                   [] OTHER -> c

quote_plus(string) == [n \in DOMAIN string |-> QuoteToken(string[n])]

\* a query that sends whatever value it is given
AnyValue(value, allowed) == TRUE

\* if tag in [ .. ]:
Listed(value, allowed) == value \in allowed

\* the 'select' field of the query for a value: set when the value is listed
Select(p, name, value, allowed) ==
    IF Listed(value, allowed) THEN DictSet(p, name, quote_plus(value)) ELSE p

\* a query that ticks the box of the other flag
Crossed(p, name, flag) ==
    IF flag = TRUE THEN DictSet(p, IF name = "archiv" THEN "wolgast" ELSE "archiv", <<"JA">>)
    ELSE p

\* the 'checkbox' field of the query for a flag: if archive is True: params['archiv'] = 'JA'
Checkbox(p, name, flag) == IF flag = TRUE THEN DictSet(p, name, <<"JA">>) ELSE p

\* "Build query parameters"
QueryDefaults(a) ==
    <<<<"do", <<"suchen">>>>,
      <<"suchtext", a.search_term>>,
      <<"schlagwort", <<"0">>>>,
      <<"titel", a.title>>,
      <<"autor1", a.first_name>>,
      <<"autor2", a.last_name>>,
      <<"illustrator", a.illustrator>>,
      <<"bewertung", <<"0">>>>,
      <<"einsatz", <<"0">>>>,
      <<"medienart", <<"0">>>>,
      <<"alter", <<"0">>>>,
      <<"gattung", <<"0">>>>,
      <<"archiv", <<>>>>,
      <<"wolgast", <<>>>>>>

\* the params query passes to get_results
QueryParams(a) ==
    LET p1 == Select(QueryDefaults(a), "schlagwort", a.tag, Tags)
        p2 == Select(p1, "bewertung", a.rating, Ratings)
        p3 == Select(p2, "einsatz", a.application, Applications)
        p4 == Select(p3, "medienart", a.media_type, MediaTypes)
        p5 == Select(p4, "alter", a.age, Ages)
        p6 == Select(p5, "gattung", a.genre, Genres)
        p7 == Checkbox(p6, "wolgast", a.wolgast)
    IN Checkbox(p7, "archiv", a.archive)

\* the params of backup and of update
BackupParams(archived) ==
    <<<<"start", <<"0">>>>,
      <<"do", <<"suchen">>>>,
      <<"bewertung", <<"0">>>>,
      <<"einsatz", <<"0">>>>,
      <<"medienart", <<"0">>>>,
      <<"alter", <<"0">>>>,
      <<"gattung", <<"0">>>>,
      <<"archiv", IF archived THEN <<"JA">> ELSE <<>>>>>>

UpdateParams(limit) ==
    <<<<"do", <<"suchen">>>>,
      <<"start", <<"0">>>>,
      <<"show", <<"last">>>>,
      <<"limit", Str(limit)>>>>

\* --limit of update
Limits == {PageSize}

\* the arguments query is called with
QueryArgs == [search_term : {<<"Drachen">>},
              tag : {<<>>, <<"Abenteuer">>, <<"abenteuer">>},
              title : {<<>>},
              first_name : {<<>>},
              last_name : {<<>>},
              illustrator : {<<>>},
              rating : {<<"sehr", " ", "empfehlenswert">>, <<"gut">>},
              application : {<<"Büchereigrundstock", " ", "für", " ", "Arbeitsbücherei">>, <<"0">>},
              media_type : {<<"Audio-CD">>, <<"CD">>},
              age : {<<"ab", " ", "18">>, <<"18">>},
              genre : {<<"Atlas">>, <<>>},
              archive : BOOLEAN,
              wolgast : BOOLEAN]

\* the caller calls get_results(p)
Call(name, a, p) ==
    /\ cpc = "none"
    /\ get_results_call(p)
    /\ cmd' = name
    /\ args' = a
    /\ cpc' = "results"
    /\ todo' = <<>>
    /\ result' = NoResult

query(a) == Call("query", a, QueryParams(a))

backup(archived) == Call("backup", NoArgs, BackupParams(archived))

update(limit) == Call("update", NoArgs, UpdateParams(limit))

\* the JSON file backup keeps for an HTML results file
ResultsFile == <<cache_dir, "/", "results", ".json">>

\* backup --html-file: the review ids come from a results page on disk
backup_file ==
    /\ cpc = "none"
    /\ Begin("backup", NoReview, NoParams)
    /\ cmd' = "backup"
    /\ \E page \in Served :
          IF Exists(ResultsFile)
          THEN /\ files' = files
               /\ outcome' = "returned"
          ELSE IF Shady(page)
               THEN /\ files' = files
                    /\ outcome' = "error"
               ELSE /\ \E ids \in extract_results(page) : files' = Written(ResultsFile, ids)
                    /\ outcome' = "returned"
    /\ reviews' = IF Failed(outcome') THEN <<>> ELSE files'[ResultsFile]
    /\ \E order \in Listings(Range(reviews')) : todo' = order
    /\ cpc' = IF Failed(outcome') THEN "failed" ELSE IF todo' = <<>> THEN "done" ELSE "reviews"
    /\ NotCalled(0)
    /\ html' = NoPage
    /\ params' = NoParams
    /\ fetched' = FALSE
    /\ data' = NoData
    /\ NoLocals
    /\ pc' = "idle"
    /\ UNCHANGED <<args, result>>

\* get_results has ended: its error ends the caller, its list starts the loop.
\* query hands the list to get_reviews, the commands loop over set(reviews)
collect ==
    /\ cpc = "results"
    /\ op = "get_results"
    /\ pc = "idle"
    /\ IF Failed(outcome)
       THEN todo' = <<>> /\ cpc' = "failed"
       ELSE /\ IF cmd = "query"
               THEN todo' = reviews
               ELSE \E order \in Listings(Range(reviews)) : todo' = order
            /\ cpc' = IF todo' = <<>> THEN "done" ELSE "reviews"
    /\ UNCHANGED <<apiVars, cmd, args, result>>

\* the commands whose loop ends with click.Context.abort() at an invalid review id
Aborting == {"backup"}

\* one pass of the loop over the review ids of backup or update
crawl_review ==
    /\ cpc = "reviews"
    /\ cmd \in {"backup", "update"}
    /\ LET r == Head(todo)
       IN IF ~MatchDigits(r) /\ cmd \in Aborting
          THEN /\ outcome' = "error"
               /\ cpc' = "failed"
               /\ todo' = <<>>
               /\ UNCHANGED <<files, op, review, html, fetched, requests, sleeps, files0>>
          ELSE IF Exists(id2file(r))
               THEN /\ todo' = Tail(todo)
                    /\ cpc' = IF todo' = <<>> THEN "done" ELSE "reviews"
                    /\ UNCHANGED <<files, op, review, html, fetched, outcome, requests,
                                   sleeps, files0>>
               ELSE /\ op' = "fetch_review"
                    /\ review' = r
                    /\ files0' = files
                    /\ FetchReviewBody(r, requests, "returned")
                    /\ todo' = IF Failed(outcome') THEN <<>> ELSE Tail(todo)
                    /\ cpc' = IF Failed(outcome') THEN "failed"
                              ELSE IF todo' = <<>> THEN "done" ELSE "reviews"
    /\ UNCHANGED <<pc, params, params0, matches, i, json_files, data, reviews, cmd, args,
                   result>>

\* one pass of the loop of get_reviews: data[review] = self.get_review(review)
query_review ==
    /\ cpc = "reviews"
    /\ cmd = "query"
    /\ LET r == Head(todo)
       IN /\ op' = "get_review"
          /\ review' = r
          /\ files0' = files
          /\ FetchReviewBody(r, requests, "returned")
          /\ data' = IF fetched' THEN extract_review(files'[id2file(r)]) ELSE NoData
          /\ result' = IF Failed(outcome') THEN result ELSE (r :> data') @@ result
          /\ todo' = IF Failed(outcome') THEN <<>> ELSE Tail(todo)
          /\ cpc' = IF Failed(outcome') THEN "failed"
                    ELSE IF todo' = <<>> THEN "done" ELSE "reviews"
    /\ UNCHANGED <<pc, params, params0, matches, i, json_files, reviews, cmd, args>>

ApiInit ==
    /\ pc = "idle"
    /\ op = "none"
    /\ review = NoReview
    /\ params = NoParams
    /\ params0 = NoParams
    /\ html = NoPage
    /\ matches = <<>>
    /\ i = 0
    /\ json_files = <<>>
    /\ fetched = FALSE
    /\ data = NoData
    /\ reviews = <<>>
    /\ outcome = "returned"
    /\ requests = 0
    /\ sleeps = 0
    /\ files0 = NoFile
    /\ NoRerun

(***************************************************************************)
(* Hashing of query parameters: two dicts are filled by assignments        *)
(* (params[k] = v) and their cache file names are taken.                   *)
(***************************************************************************)
ParamNames == {"do", "start", "archiv"}
ParamValues == {<<"0">>, <<"JA">>}

NoKey == <<>>

HashInit ==
    /\ first = NoParams
    /\ second = NoParams
    /\ key1 = NoKey
    /\ key2 = NoKey
    /\ inserts = <<0, 0>>

assign_first(k, v) ==
    /\ inserts[1] < MaxInsert
    /\ first' = DictSet(first, k, v)
    /\ inserts' = [inserts EXCEPT ![1] = @ + 1]
    /\ key1' = NoKey
    /\ UNCHANGED <<second, key2>>

assign_second(k, v) ==
    /\ inserts[2] < MaxInsert
    /\ second' = DictSet(second, k, v)
    /\ inserts' = [inserts EXCEPT ![2] = @ + 1]
    /\ key2' = NoKey
    /\ UNCHANGED <<first, key1>>

hash_both ==
    /\ key1 = NoKey \/ key2 = NoKey
    /\ key1' = hash2file(first)
    /\ key2' = hash2file(second)
    /\ UNCHANGED <<first, second, inserts>>

(***************************************************************************)
(* cli.index: the pool of workers that builds the index (without --strict) *)
(***************************************************************************)
VARIABLES
    listing,     \* the order in which glob.glob lists the HTML files of the cache
    queue,       \* the add2index tasks no worker has taken yet
    wpc,         \* per worker: the place it has reached in add2index
    wfile,       \* per worker: html_file
    wisbn,       \* per worker: isbn
    buffer,      \* per worker: buffer
    isbns,       \* the manager's dict
    lock,        \* the manager's lock: 0, or the worker that holds it
    main,        \* the place the command has reached
    run,         \* which build of the index this is
    builds,      \* how often the command is run
    index_files, \* the index files written so far, one per build
    contended    \* a worker came to the lock while another was adding to the same ISBN

indexVars == <<listing, queue, wpc, wfile, wisbn, buffer, isbns, lock, main, run, builds,
               index_files, contended>>

Workers == 1..Jobs

IndexIds == {IdNames[n] : n \in 1..MaxCached}

\* review pages a cache can hold: each has the disclaimer
CachedPages == {PageA, PageB, PageC, PageD}

NoTask == <<>>
NoIndex == [k \in {} |-> <<>>]

\* order of ISBNs in sorted(isbns.items()): by the first character that differs
Rank(c) == IF \E d \in 0..9 : Digits[d + 1] = c THEN DigitValue(c) ELSE 10

RECURSIVE TextLess(_, _)
TextLess(a, b) == IF Len(b) = 0 THEN FALSE
                  ELSE IF Len(a) = 0 THEN TRUE
                  ELSE IF Head(a) = Head(b) THEN TextLess(Tail(a), Tail(b))
                  ELSE Rank(Head(a)) < Rank(Head(b))

\* dict(sorted(d.items())) as dump_json writes it: the pairs in the order of their keys
SortedItems(d) ==
    LET keys == CHOOSE s \in Listings(DOMAIN d) :
                    \A a, b \in DOMAIN s : a < b => TextLess(s[a], s[b])
    IN [n \in DOMAIN keys |-> <<keys[n], d[keys[n]]>>]

IndexIdle ==
    /\ listing = <<>>
    /\ queue = <<>>
    /\ wpc = [w \in Workers |-> "idle"]
    /\ wfile = [w \in Workers |-> NoTask]
    /\ wisbn = [w \in Workers |-> <<>>]
    /\ buffer = [w \in Workers |-> <<>>]
    /\ isbns = NoIndex
    /\ lock = 0
    /\ main = "ready"
    /\ run = 1
    /\ builds = 1
    /\ index_files = <<>>
    /\ contended = FALSE

\* pool.apply_async(add2index, ..) for every file that glob.glob lists
index_start ==
    /\ main = "ready"
    /\ listing' = listing
    /\ queue' = listing
    /\ isbns' = NoIndex
    /\ contended' = FALSE
    /\ main' = "running"
    /\ UNCHANGED <<wpc, wfile, wisbn, buffer, lock, run, builds, index_files>>

\* a worker of the pool takes the next task
add2index_take(w) ==
    /\ main = "running"
    /\ wpc[w] = "idle"
    /\ queue # <<>>
    /\ wfile' = [wfile EXCEPT ![w] = Head(queue)]
    /\ queue' = Tail(queue)
    /\ wpc' = [wpc EXCEPT ![w] = "load"]
    /\ UNCHANGED <<listing, wisbn, buffer, isbns, lock, main, run, builds, index_files, contended>>

\* data = ajum.get_review(review) for a review whose HTML file is in the cache
CachedReview(r) == extract_review(files[id2file(r)])

InCriticalPath(v, isbn) == wpc[v] \in {"acquire", "create", "read", "write", "release"} /\ wisbn[v] = isbn

\* review = ajum.file2id(html_file) .. isbn = data['ISBN']
add2index_load(w) ==
    /\ wpc[w] = "load"
    /\ ReviewCached(file2id(wfile[w]))
    /\ LET record == CachedReview(file2id(wfile[w]))
       IN IF "ISBN" \notin DOMAIN record
          THEN /\ wpc' = [wpc EXCEPT ![w] = "idle"]
               /\ UNCHANGED <<wisbn, contended>>
          ELSE /\ wisbn' = [wisbn EXCEPT ![w] = record["ISBN"]]
               /\ wpc' = [wpc EXCEPT ![w] = "acquire"]
               /\ contended' = (contended \/ \E v \in Workers \ {w} : InCriticalPath(v, record["ISBN"]))
    /\ UNCHANGED <<listing, queue, wfile, buffer, isbns, lock, main, run, builds, index_files>>

\* a lock that lets every worker in
AlwaysFree == TRUE

\* lock.acquire() returns when no worker holds the lock
LockFree == lock = 0

add2index_acquire(w) ==
    /\ wpc[w] = "acquire"
    /\ LockFree
    /\ lock' = w
    /\ wpc' = [wpc EXCEPT ![w] = "create"]
    /\ UNCHANGED <<listing, queue, wfile, wisbn, buffer, isbns, main, run, builds, index_files,
                   contended>>

\* if isbn not in index: index[isbn] = []
add2index_create(w) ==
    /\ wpc[w] = "create"
    /\ isbns' = IF wisbn[w] \notin DOMAIN isbns THEN (wisbn[w] :> <<>>) @@ isbns ELSE isbns
    /\ wpc' = [wpc EXCEPT ![w] = "read"]
    /\ UNCHANGED <<listing, queue, wfile, wisbn, buffer, lock, main, run, builds, index_files,
                   contended>>

\* buffer = index[isbn]
add2index_read(w) ==
    /\ wpc[w] = "read"
    /\ buffer' = [buffer EXCEPT ![w] = isbns[wisbn[w]]]
    /\ wpc' = [wpc EXCEPT ![w] = "write"]
    /\ UNCHANGED <<listing, queue, wfile, wisbn, isbns, lock, main, run, builds, index_files,
                   contended>>

\* buffer.append(review); index[isbn] = buffer
add2index_write(w) ==
    /\ wpc[w] = "write"
    /\ isbns' = (wisbn[w] :> Append(buffer[w], file2id(wfile[w]))) @@ isbns
    /\ wpc' = [wpc EXCEPT ![w] = "release"]
    /\ UNCHANGED <<listing, queue, wfile, wisbn, buffer, lock, main, run, builds, index_files,
                   contended>>

\* lock.release()
add2index_release(w) ==
    /\ wpc[w] = "release"
    /\ lock' = 0
    /\ wpc' = [wpc EXCEPT ![w] = "idle"]
    /\ wfile' = [wfile EXCEPT ![w] = NoTask]
    /\ wisbn' = [wisbn EXCEPT ![w] = <<>>]
    /\ buffer' = [buffer EXCEPT ![w] = <<>>]
    /\ UNCHANGED <<listing, queue, isbns, main, run, builds, index_files, contended>>

\* pool.close(); pool.join(); dump_json(dict(sorted(isbns.items())), index_file)
index_finish ==
    /\ main = "running"
    /\ queue = <<>>
    /\ \A w \in Workers : wpc[w] = "idle"
    /\ index_files' = Append(index_files, SortedItems(isbns))
    /\ main' = IF run < builds THEN "ready" ELSE "done"
    /\ run' = IF run < builds THEN run + 1 ELSE run
    /\ UNCHANGED <<listing, queue, wpc, wfile, wisbn, buffer, isbns, lock, builds, contended>>

(***************************************************************************)
(* cli.build: the pool of workers that builds the database from the index  *)
(***************************************************************************)
VARIABLES
    index_file,  \* the index file the command loads
    dqueue,      \* the add2database tasks no worker has taken yet
    dpc,         \* per worker: the place it has reached in add2database
    dtask,       \* per worker: isbn and reviews
    dreviews,    \* per worker: the reviews its loop has still to visit
    dbuffer,     \* per worker: buffer
    database,    \* the manager's dict
    dmain,       \* the place the command has reached
    db_file      \* the database file, once written

buildVars == <<index_file, dqueue, dpc, dtask, dreviews, dbuffer, database, dmain, db_file>>

NoBuffer == [r \in {} |-> NoData]
NoDatabase == [k \in {} |-> NoBuffer]

\* the ISBNs of the index files the database is built from
IndexIsbns == {<<"9", "1">>, <<"9", "2">>}

\* the buckets of an index that lists review r under place[r], or nowhere for <<>>
Buckets(place) ==
    LET used == {place[r] : r \in IndexIds} \ {<<>>}
        lists == UNION {Listings(ids) : ids \in SUBSET IndexIds}
    IN {b \in [used -> lists] : \A k \in used : b[k] \in Listings({r \in IndexIds : place[r] = k})}

\* the index files index can have written: sorted by ISBN, each review in one list at most
IndexFiles == UNION {{SortedItems(b) : b \in Buckets(place)} :
                        place \in [IndexIds -> {<<>>} \cup IndexIsbns]}

\* the caches the database is built over: some of the review pages are there
Caches == UNION {[{id2file(r) : r \in ids} -> CachedPages] : ids \in SUBSET IndexIds}

BuildIdle ==
    /\ index_file = <<>>
    /\ dqueue = <<>>
    /\ dpc = [w \in Workers |-> "idle"]
    /\ dtask = [w \in Workers |-> NoTask]
    /\ dreviews = [w \in Workers |-> <<>>]
    /\ dbuffer = [w \in Workers |-> NoBuffer]
    /\ database = NoDatabase
    /\ dmain = "ready"
    /\ db_file = <<>>

\* pool.apply_async(add2database, ..) for every item of load_json(index_file)
build_start ==
    /\ dmain = "ready"
    /\ dqueue' = index_file
    /\ database' = NoDatabase
    /\ dmain' = "running"
    /\ UNCHANGED <<index_file, dpc, dtask, dreviews, dbuffer, db_file>>

\* a worker of the pool takes the next task: buffer = {}
add2database_take(w) ==
    /\ dmain = "running"
    /\ dpc[w] = "idle"
    /\ dqueue # <<>>
    /\ dtask' = [dtask EXCEPT ![w] = Head(dqueue)]
    /\ dreviews' = [dreviews EXCEPT ![w] = Head(dqueue)[2]]
    /\ dbuffer' = [dbuffer EXCEPT ![w] = NoBuffer]
    /\ dqueue' = Tail(dqueue)
    /\ dpc' = [dpc EXCEPT ![w] = "reviews"]
    /\ UNCHANGED <<index_file, database, dmain, db_file>>

\* a build that fills in an empty record for a review whose HTML file is gone
EmptyRecord(r) == IF ReviewCached(r) THEN (r :> CachedReview(r)) ELSE (r :> NoData)

\* what one pass of the loop adds to buffer for a review:
\* if not os.path.exists(html_file): continue .. buffer[review] = extract_review(html)
Extracted(r) == IF ReviewCached(r) THEN (r :> CachedReview(r)) ELSE NoBuffer

\* one pass of the loop over the reviews of the ISBN
add2database_review(w) ==
    /\ dpc[w] = "reviews"
    /\ dreviews[w] # <<>>
    /\ dbuffer' = [dbuffer EXCEPT ![w] = Extracted(Head(dreviews[w])) @@ @]
    /\ dreviews' = [dreviews EXCEPT ![w] = Tail(@)]
    /\ UNCHANGED <<index_file, dqueue, dpc, dtask, database, dmain, db_file>>

\* who holds the lock of a shared mapping: index makes manager.Lock() for its dict,
\* build makes no lock for its dict
Holder(mapping) == IF mapping = "index" THEN lock ELSE 0

\* data[isbn] = buffer
add2database_store(w) ==
    /\ dpc[w] = "reviews"
    /\ dreviews[w] = <<>>
    /\ database' = (dtask[w][1] :> dbuffer[w]) @@ database
    /\ dpc' = [dpc EXCEPT ![w] = "idle"]
    /\ dtask' = [dtask EXCEPT ![w] = NoTask]
    /\ dbuffer' = [dbuffer EXCEPT ![w] = NoBuffer]
    /\ UNCHANGED <<index_file, dqueue, dreviews, dmain, db_file>>

\* pool.close(); pool.join(); dump_json(dict(sorted(isbns.items())), db_file)
build_finish ==
    /\ dmain = "running"
    /\ dqueue = <<>>
    /\ \A w \in Workers : dpc[w] = "idle"
    /\ db_file' = SortedItems(database)
    /\ dmain' = "done"
    /\ UNCHANGED <<index_file, dqueue, dpc, dtask, dreviews, dbuffer, database>>

(***************************************************************************)
(* Specifications                                                          *)
(***************************************************************************)
vars == <<apiVars, hashVars, indexVars, envVars, rerunVars, callVars, buildVars>>

\* the remote site of the client calls: links to reviews, no redirects
PlainSite == site = "plain" /\ redirects = NoRedirects

\* the calls of the client, one after the other, from an empty cache
Init == files = NoFile /\ ApiInit /\ HashInit /\ IndexIdle /\ PlainSite /\ NoCaller /\ BuildIdle

Next ==
    \/ \E r \in ReviewIds : fetch_review(r) /\ UNCHANGED <<hashVars, indexVars, envVars, rerunVars, callVars, buildVars>>
    \/ \E r \in ReviewIds : get_review(r) /\ UNCHANGED <<hashVars, indexVars, envVars, rerunVars, callVars, buildVars>>
    \/ \E p \in CallerParams : fetch_results(p) /\ UNCHANGED <<hashVars, indexVars, envVars, rerunVars, callVars, buildVars>>
    \/ \E p \in CallerParams : get_results_call(p) /\ UNCHANGED <<hashVars, indexVars, envVars, rerunVars, callVars, buildVars>>
    \/ get_results_first /\ UNCHANGED <<hashVars, indexVars, envVars, rerunVars, callVars, buildVars>>
    \/ get_results_page /\ UNCHANGED <<hashVars, indexVars, envVars, rerunVars, callVars, buildVars>>
    \/ get_results_return /\ UNCHANGED <<hashVars, indexVars, envVars, rerunVars, callVars, buildVars>>
    \/ clear_cache /\ UNCHANGED <<hashVars, indexVars, envVars, rerunVars, callVars, buildVars>>

Spec == Init /\ [][Next]_vars

\* assignments to two parameter dicts and the names of their cache files
InitHash == Init

NextHash ==
    \/ \E k \in ParamNames, v \in ParamValues : assign_first(k, v) /\ UNCHANGED <<apiVars, indexVars, envVars, rerunVars, callVars, buildVars>>
    \/ \E k \in ParamNames, v \in ParamValues : assign_second(k, v) /\ UNCHANGED <<apiVars, indexVars, envVars, rerunVars, callVars, buildVars>>
    \/ hash_both /\ UNCHANGED <<apiVars, indexVars, envVars, rerunVars, callVars, buildVars>>

SpecHash == InitHash /\ [][NextHash]_vars

\* the state of the command before a build, over a cache of genuine review pages
IndexReady ==
    /\ files \in [{id2file(r) : r \in IndexIds} -> CachedPages]
    /\ ApiInit
    /\ HashInit
    /\ listing \in Listings(GlobHtml)
    /\ queue = <<>>
    /\ wpc = [w \in Workers |-> "idle"]
    /\ wfile = [w \in Workers |-> NoTask]
    /\ wisbn = [w \in Workers |-> <<>>]
    /\ buffer = [w \in Workers |-> <<>>]
    /\ isbns = NoIndex
    /\ lock = 0
    /\ main = "ready"
    /\ run = 1
    /\ index_files = <<>>
    /\ contended = FALSE
    /\ PlainSite
    /\ NoCaller
    /\ BuildIdle

\* one build of the index
InitIndex == IndexReady /\ builds = 1

\* two builds of the index, one after the other, from the same cache
InitRebuild == IndexReady /\ builds = 2

NextIndex ==
    \/ index_start /\ UNCHANGED <<apiVars, hashVars, envVars, rerunVars, callVars, buildVars>>
    \/ \E w \in Workers : add2index_take(w) /\ UNCHANGED <<apiVars, hashVars, envVars, rerunVars, callVars, buildVars>>
    \/ \E w \in Workers : add2index_load(w) /\ UNCHANGED <<apiVars, hashVars, envVars, rerunVars, callVars, buildVars>>
    \/ \E w \in Workers : add2index_acquire(w) /\ UNCHANGED <<apiVars, hashVars, envVars, rerunVars, callVars, buildVars>>
    \/ \E w \in Workers : add2index_create(w) /\ UNCHANGED <<apiVars, hashVars, envVars, rerunVars, callVars, buildVars>>
    \/ \E w \in Workers : add2index_read(w) /\ UNCHANGED <<apiVars, hashVars, envVars, rerunVars, callVars, buildVars>>
    \/ \E w \in Workers : add2index_write(w) /\ UNCHANGED <<apiVars, hashVars, envVars, rerunVars, callVars, buildVars>>
    \/ \E w \in Workers : add2index_release(w) /\ UNCHANGED <<apiVars, hashVars, envVars, rerunVars, callVars, buildVars>>
    \/ index_finish /\ UNCHANGED <<apiVars, hashVars, envVars, rerunVars, callVars, buildVars>>

SpecIndex == InitIndex /\ [][NextIndex]_vars

SpecRebuild == InitRebuild /\ [][NextIndex]_vars

\* one build of the database from an index file, over a cache that has lost pages
InitBuild ==
    /\ files \in Caches
    /\ ApiInit
    /\ HashInit
    /\ IndexIdle
    /\ PlainSite
    /\ NoCaller
    /\ index_file \in IndexFiles
    /\ dqueue = <<>>
    /\ dpc = [w \in Workers |-> "idle"]
    /\ dtask = [w \in Workers |-> NoTask]
    /\ dreviews = [w \in Workers |-> <<>>]
    /\ dbuffer = [w \in Workers |-> NoBuffer]
    /\ database = NoDatabase
    /\ dmain = "ready"
    /\ db_file = <<>>

NextBuild ==
    \/ build_start /\ UNCHANGED <<apiVars, hashVars, indexVars, envVars, rerunVars, callVars>>
    \/ \E w \in Workers : add2database_take(w) /\ UNCHANGED <<apiVars, hashVars, indexVars, envVars, rerunVars, callVars>>
    \/ \E w \in Workers : add2database_review(w) /\ UNCHANGED <<apiVars, hashVars, indexVars, envVars, rerunVars, callVars>>
    \/ \E w \in Workers : add2database_store(w) /\ UNCHANGED <<apiVars, hashVars, indexVars, envVars, rerunVars, callVars>>
    \/ build_finish /\ UNCHANGED <<apiVars, hashVars, indexVars, envVars, rerunVars, callVars>>

SpecBuild == InitBuild /\ [][NextBuild]_vars

\* extract_results over results pages whose links carry any id value
InitExtract ==
    /\ files = NoFile
    /\ ApiInit
    /\ HashInit
    /\ IndexIdle
    /\ site = "shady"
    /\ redirects \in RedirectFiles
    /\ NoCaller
    /\ BuildIdle

NextExtract ==
    \E page \in Served : extract(page) /\ UNCHANGED <<hashVars, indexVars, envVars, rerunVars, callVars, buildVars>>

SpecExtract == InitExtract /\ [][NextExtract]_vars

\* one run of backup or update against a site whose links carry any id value
InitCrawl ==
    /\ files \in [{id2file(r) : r \in ReviewIds} -> {PageA}] \cup {NoFile}
    /\ ApiInit
    /\ HashInit
    /\ IndexIdle
    /\ site = "shady"
    /\ redirects = NoRedirects
    /\ NoCaller
    /\ BuildIdle

NextCrawl ==
    \/ \E archived \in BOOLEAN : backup(archived) /\ UNCHANGED <<hashVars, indexVars, envVars, rerunVars, buildVars>>
    \/ backup_file /\ UNCHANGED <<hashVars, indexVars, envVars, rerunVars, buildVars>>
    \/ \E limit \in Limits : update(limit) /\ UNCHANGED <<hashVars, indexVars, envVars, rerunVars, buildVars>>
    \/ get_results_first /\ UNCHANGED <<hashVars, indexVars, envVars, rerunVars, callVars, buildVars>>
    \/ get_results_page /\ UNCHANGED <<hashVars, indexVars, envVars, rerunVars, callVars, buildVars>>
    \/ get_results_return /\ UNCHANGED <<hashVars, indexVars, envVars, rerunVars, callVars, buildVars>>
    \/ collect /\ UNCHANGED <<hashVars, indexVars, envVars, rerunVars, buildVars>>
    \/ crawl_review /\ UNCHANGED <<hashVars, indexVars, envVars, rerunVars, buildVars>>

SpecCrawl == InitCrawl /\ [][NextCrawl]_vars

\* one call of query from an empty cache
InitQuery ==
    /\ files = NoFile
    /\ ApiInit
    /\ HashInit
    /\ IndexIdle
    /\ site = "query"
    /\ redirects = NoRedirects
    /\ NoCaller
    /\ BuildIdle

NextQuery ==
    \/ \E a \in QueryArgs : query(a) /\ UNCHANGED <<hashVars, indexVars, envVars, rerunVars, buildVars>>
    \/ get_results_first /\ UNCHANGED <<hashVars, indexVars, envVars, rerunVars, callVars, buildVars>>
    \/ get_results_page /\ UNCHANGED <<hashVars, indexVars, envVars, rerunVars, callVars, buildVars>>
    \/ get_results_return /\ UNCHANGED <<hashVars, indexVars, envVars, rerunVars, callVars, buildVars>>
    \/ collect /\ UNCHANGED <<hashVars, indexVars, envVars, rerunVars, buildVars>>
    \/ query_review /\ UNCHANGED <<hashVars, indexVars, envVars, rerunVars, buildVars>>

SpecQuery == InitQuery /\ [][NextQuery]_vars

\* extract_review over review pages of some rows
NextReview ==
    \/ \E page \in TablePages : extract_review_start(page) /\ UNCHANGED <<hashVars, indexVars, envVars, rerunVars, callVars, buildVars>>
    \/ extract_review_cell /\ UNCHANGED <<hashVars, indexVars, envVars, rerunVars, callVars, buildVars>>
    \/ extract_review_return /\ UNCHANGED <<hashVars, indexVars, envVars, rerunVars, callVars, buildVars>>

SpecReview == Init /\ [][NextReview]_vars

\* calls of get_results on dicts of one content, with clear_cache among them
NextRerun ==
    \/ \E p \in RerunParams : rerun_call(p) /\ UNCHANGED <<hashVars, indexVars, envVars, callVars, buildVars>>
    \/ rerun_first /\ UNCHANGED <<hashVars, indexVars, envVars, callVars, buildVars>>
    \/ rerun_page /\ UNCHANGED <<hashVars, indexVars, envVars, callVars, buildVars>>
    \/ rerun_return /\ UNCHANGED <<hashVars, indexVars, envVars, callVars, buildVars>>
    \/ rerun_clear /\ UNCHANGED <<hashVars, indexVars, envVars, callVars, buildVars>>

SpecRerun == Init /\ [][NextRerun]_vars

(***************************************************************************)
(* Properties of the cache and of get_results                              *)
(***************************************************************************)
IsJson(f) == f[Len(f)] = ".json"
IsHtml(f) == f[Len(f)] = ".html"

Returned(name) == op = name /\ pc = "idle" /\ outcome = "returned"

\* C1: in every step of every sequence of calls, a file of the cache that exists keeps
\* its content for as long as it exists, and the only files that cease to exist are
\* JSON files removed by clear_cache.
CacheEntriesImmutable ==
    [][\A f \in DOMAIN files :
          IF f \in DOMAIN files'
          THEN files'[f] = files[f]
          ELSE IsJson(f) /\ op' = "clear_cache"]_vars

\* a get_results over several pages has found every one of its JSON files in place
WitnessC1 ==
    /\ Returned("get_results")
    /\ matches # <<>>
    /\ LastPage(matches) >= 1
    /\ requests = 1
    /\ GlobHtml # {}

\* the call made a request for the review page and was answered with a page that
\* lacks the disclaimer
AnsweredWithoutDisclaimer ==
    /\ op \in {"fetch_review", "get_review"}
    /\ outcome = "returned"
    /\ requests = 1
    /\ ~html.disclaimer

\* C2: when the page fetched for a review id lacks the disclaimer, fetch_review returns
\* False, get_review returns an empty record and no HTML file exists for the id; every
\* HTML file of the cache holds the disclaimer.
InvalidPageNeverCached ==
    /\ AnsweredWithoutDisclaimer =>
          /\ fetched = FALSE
          /\ data = NoData
          /\ ~Exists(id2file(review))
    /\ \A f \in GlobHtml : files[f].disclaimer

WitnessC2 == AnsweredWithoutDisclaimer /\ op = "get_review" /\ GlobJson # {}

ColdStart == \A f \in DOMAIN files0 : ~IsJson(f)

\* C3: a get_results call that starts with no JSON file and finds the count N on the
\* first page has made floor(N/50) requests besides the first when it returns.
ExtraRequestsAreLaterPages ==
    (Returned("get_results") /\ matches # <<>> /\ ColdStart)
        => requests = 1 + (ParseInt(matches[1]) \div PageSize)

\* C4: the list get_results returns holds no review id twice.
ReturnedIdsDistinct ==
    Returned("get_results") =>
        \A a, b \in DOMAIN reviews : a # b => reviews[a] # reviews[b]

\* C5: when get_results returns, the params dict of the caller holds what it held when
\* the call was made.
CallerParamsUnchanged == Returned("get_results") => params = params0

\* the first response of get_results is held and shows no count
FirstPageWithoutCount == op = "get_results" /\ html \in Served /\ findall(html) = <<>>

\* C6: when the first results page shows no count, get_results has returned the empty
\* list after its one request, and the cache is as it was when the call was made.
NoCountReturnsAtOnce ==
    FirstPageWithoutCount =>
        /\ pc = "idle"
        /\ outcome = "returned"
        /\ reviews = <<>>
        /\ requests = 1
        /\ files = files0

WitnessC6 == FirstPageWithoutCount /\ GlobJson # {} /\ GlobHtml # {} /\ html.links # <<>>

\* C7: after clear_cache no JSON file is left, and the HTML files are those that were
\* there when it was called, with the same content.
ClearRemovesJsonOnly ==
    op = "clear_cache" =>
        /\ GlobJson = {}
        /\ GlobHtml = {f \in DOMAIN files0 : IsHtml(f)}
        /\ \A f \in GlobHtml : files[f] = files0[f]

WitnessC7 ==
    /\ op = "clear_cache"
    /\ GlobHtml # {}
    /\ Cardinality({f \in DOMAIN files0 : IsJson(f)}) > 1

(***************************************************************************)
(* Properties of the cache file names and of the index                     *)
(***************************************************************************)
\* C8: two parameter dicts holding the same name/value pairs have the same JSON cache
\* file name, in whatever order the pairs were assigned.
SameContentSameKey ==
    (key1 # NoKey /\ key2 # NoKey /\ DictItems(first) = DictItems(second)) => key1 = key2

\* how often a review id stands in a list
Occurrences(list, r) == Cardinality({n \in DOMAIN list : list[n] = r})

\* in an index file, each cached review with an ISBN stands once in the list of that
\* ISBN and in no other list, and each cached review without an ISBN stands in no list
FileComplete(file) ==
    \A r \in IndexIds : \A n \in DOMAIN file :
        Occurrences(file[n][2], r) =
            IF "ISBN" \in DOMAIN CachedReview(r) /\ CachedReview(r)["ISBN"] = file[n][1]
            THEN 1 ELSE 0

HasBucket(file, isbn) == \E n \in DOMAIN file : file[n][1] = isbn

\* C9: whatever the interleaving of the workers, the index written when all of them
\* have finished lists each cached review with an ISBN exactly once under that ISBN
\* and nowhere else, and lists no cached review without an ISBN.
IndexEntriesExact ==
    \A k \in DOMAIN index_files :
        /\ FileComplete(index_files[k])
        /\ \A r \in IndexIds :
              "ISBN" \in DOMAIN CachedReview(r) => HasBucket(index_files[k], CachedReview(r)["ISBN"])

\* a build has finished in which a worker came to the lock while another was adding to
\* the same ISBN, and both their reviews are in the index
WitnessC9 ==
    /\ main = "done"
    /\ index_files # <<>>
    /\ contended
    /\ \E n \in DOMAIN index_files[1] : Len(index_files[1][n][2]) > 1

\* C10: two builds of the index from the same cache write the same index file.
BuildsIdentical == (main = "done" /\ Len(index_files) = 2) => index_files[1] = index_files[2]

(***************************************************************************)
(* Properties of the database build                                        *)
(***************************************************************************)
Keys(file) == {file[n][1] : n \in DOMAIN file}

\* the reviews of an index list whose HTML file is in the cache
StillCached(list) == {r \in Range(list) : Exists(id2file(r))}

\* C11: whatever the interleaving of the workers, the database file written when all of
\* them have finished has exactly the ISBNs of the index file as keys, and under each
\* ISBN exactly the reviews of its index list whose HTML file is in the cache, each with
\* the record extracted from that file; reviews without an HTML file are left out.
DatabaseExact ==
    dmain = "done" =>
        /\ Len(db_file) = Len(index_file)
        /\ Keys(db_file) = Keys(index_file)
        /\ \A n \in DOMAIN db_file : \A m \in DOMAIN index_file :
              db_file[n][1] = index_file[m][1] =>
                 /\ DOMAIN db_file[n][2] = StillCached(index_file[m][2])
                 /\ \A r \in DOMAIN db_file[n][2] :
                       db_file[n][2][r] = extract_review(files[id2file(r)])

\* a build has finished over an index of two ISBNs, the review of one of them has no
\* HTML file any more and the review of the other has
WitnessC11 ==
    /\ dmain = "done"
    /\ Len(db_file) = 2
    /\ \E n, m \in DOMAIN db_file : db_file[n][2] = NoBuffer /\ db_file[m][2] # NoBuffer
    /\ \E m \in DOMAIN index_file : StillCached(index_file[m][2]) # Range(index_file[m][2])

(***************************************************************************)
(* Properties of extract_results and of the crawls                         *)
(***************************************************************************)
\* the identifier consists of digits only
Numeric(r) == Len(Chars(r)) > 0 /\ \A n \in DOMAIN Chars(r) : IsDigit(Chars(r)[n])

\* the ids the hyperlinks of the page carry, after the replacement by redirects
LinkedIds(page) == {Redirected(page.links[n]) : n \in DOMAIN page.links}

\* C12: every id in the list extract_results returns consists of digits only, and a page
\* with a link whose id (after the replacement by redirects) holds a character that is
\* no digit makes extract_results end with an error instead of returning.
ExtractedIdsNumeric ==
    op = "extract_results" =>
        /\ outcome = "returned" => \A n \in DOMAIN reviews : Numeric(reviews[n])
        /\ (\E r \in LinkedIds(html) : ~Numeric(r)) => outcome = "error"

\* C13: in backup and in update, fetch_review is called for no review id that is not
\* a number.
NoFetchOfMalformedId ==
    (cmd \in {"backup", "update"} /\ op = "fetch_review") => Numeric(review)

\* C14: the list extract_results returns for a page holds each id that a hyperlink of
\* the page carries (after the replacement by redirects) exactly once, however many
\* hyperlinks carry it, and no other id.
ExtractDeduplicates ==
    (op = "extract_results" /\ outcome = "returned") =>
        /\ Range(reviews) = LinkedIds(html)
        /\ \A a, b \in DOMAIN reviews : a # b => reviews[a] # reviews[b]

\* extract_results has returned one id for a page with two different links: a redirect
\* has put the id of one in the place of the other
WitnessC14 ==
    /\ op = "extract_results"
    /\ outcome = "returned"
    /\ Len(html.links) = 2
    /\ html.links[1] # html.links[2]
    /\ Len(reviews) = 1

TransportErrorLeavesCache ==
    [][outcome' = "raised" =>
          /\ pc' = "idle"
          /\ requests' = (IF pc = "idle" THEN 1 ELSE requests + 1)
          /\ files' = files]_vars

\* a get_results has failed at a later page, after it had written the JSON file of an
\* earlier one, and that file is there
WitnessC16 ==
    /\ op = "get_results"
    /\ outcome = "raised"
    /\ requests > 2
    /\ hash2file(params0) \in DOMAIN files
    /\ hash2file(params0) \notin DOMAIN files0
    /\ GlobHtml # {}

(***************************************************************************)
(* Properties of the query parameters                                      *)
(***************************************************************************)
\* the value a dict holds for a key
Value(d, k) == (CHOOSE pair \in Range(d) : pair[1] = k)[2]

\* the 'select' arguments of query: argument, parameter and list of allowed values
SelectFields == {<<"tag", "schlagwort", Tags>>,
                 <<"rating", "bewertung", Ratings>>,
                 <<"application", "einsatz", Applications>>,
                 <<"media_type", "medienart", MediaTypes>>,
                 <<"age", "alter", Ages>>,
                 <<"genre", "gattung", Genres>>}

\* the parameters query does not derive from a 'select' argument or a flag
TextFields == {<<"search_term", "suchtext">>, <<"title", "titel">>, <<"first_name", "autor1">>,
               <<"last_name", "autor2">>, <<"illustrator", "illustrator">>}

Critical == {"create", "read", "write", "release"}

\* C19: in the index build and in the database build, a worker that inserts into the
\* shared mapping holds the lock of that mapping; at most one worker is between acquire
\* and release; and a worker that holds the lock is at the insert, not at the loading
\* of a review.
InsertsUnderLock ==
    [][/\ \A w \in Workers :
             /\ (wpc[w] \in {"create", "write"} /\ wpc'[w] # wpc[w]) => Holder("index") = w
             /\ (dpc[w] = "reviews" /\ dpc'[w] = "idle") => Holder("database") = w
             /\ Holder("index") = w => wpc[w] \in Critical
       /\ Cardinality({w \in Workers : wpc[w] \in Critical}) <= 1]_vars

\* the key of the call was in the cache when the call was made
CalledOnCachedKey ==
    \/ op = "fetch_review" /\ id2file(review) \in DOMAIN files0
    \/ op = "fetch_results" /\ hash2file(params0) \in DOMAIN files0

\* C20: fetch_results called with params whose JSON file exists, and fetch_review called
\* with an id whose HTML file exists, send no request, leave the cache as it was and
\* return True.
CachedFetchSendsNothing ==
    CalledOnCachedKey =>
        /\ requests = 0
        /\ sleeps = 0
        /\ files = files0
        /\ fetched = TRUE
        /\ outcome = "returned"

\* fetch_results has been called for params whose JSON file was there, next to a
\* review page
WitnessC20 ==
    /\ op = "fetch_results"
    /\ hash2file(params0) \in DOMAIN files0
    /\ GlobHtml # {}

(***************************************************************************)
(* Properties of extract_review                                            *)
(***************************************************************************)
\* the steps of the scan of extract_review: from one data cell to the next
ScanStep == op = "extract_review" /\ pc = "scan" /\ pc' = "scan"

\* C21: in every step of the scan, a field of the record that has a value keeps that
\* value: no later cell of the page changes a field that an earlier cell has filled.
FirstMatchWins ==
    [][ScanStep => \A term \in DOMAIN data : term \in DOMAIN data' /\ data'[term] = data[term]]_vars

\* C22: the author of a record extract_review returns does not end with a comma.
AuthorCommaStripped ==
    (op = "extract_review" /\ outcome = "returned" /\ "Autor" \in DOMAIN data)
        => (data["Autor"] = <<>> \/ data["Autor"][Len(data["Autor"])] # ",")

(***************************************************************************)
(* Properties of a second get_results call                                 *)
(***************************************************************************)
\* the call that has returned was made after one that completed for the same content
\* and the same count
SecondCall ==
    /\ Returned("get_results")
    /\ completed0 # NoCall
    /\ DictItems(params0) = DictItems(completed0.params)
    /\ matches = completed0.count

\* C23: a get_results call made after one that completed for params of the same
\* content and for the same count, with no clear_cache since, has made one request,
\* the first, and has left the cache as it was.
RerunServedFromCache == SecondCall => (requests = 1 /\ files = files0)

====
